---- MODULE Spec2Model ----
(***************************************************************************)
(* Model of the text-generation proxy of portal-odeus:                     *)
(*   src/api/generate.js    handler with retry (fetchWithRetry) + fallback *)
(*   src/unnamed/part_000   earlier handler, one direct call, no retry     *)
(* One invocation of the exported handler is followed from the inbound     *)
(* request to the response, through its suspension points (the awaited     *)
(* fetch and the awaited backoff sleep).  The upstream provider is the     *)
(* environment: it answers each outbound call with a status and a body,    *)
(* or the call is rejected at the transport level.                         *)
(***************************************************************************)
EXTENDS Integers, Sequences, FiniteSets, TLC

(***************************************************************************)
(* Program constants and bounds                                            *)
(***************************************************************************)
MODEL_PRIMARY == "gemini-3-flash-preview"
MODEL_FALLBACK == "gemini-2.0-flash"

\* default value of fetchWithRetry's third parameter; callGemini never overrides it
maxAttempts == 4

\* number of distinct success payloads the upstream may answer with
NumPayloads == 2

\* largest maxAttempts a direct call of fetchWithRetry is given
MaxBudget == 4

\* number of invocations followed side by side
NumInvocations == 2

(***************************************************************************)
(* JavaScript values of the request and of the environment                 *)
(***************************************************************************)
Undefined == [t |-> "undefined", v |-> ""]
Str(s) == [t |-> "string", v |-> s]
Num(s) == [t |-> "number", v |-> s]

\* ToBoolean, as applied by `!x` and `||`
Truthy(x) ==
    \/ x.t = "string" /\ x.v # ""
    \/ x.t = "number" /\ x.v # "0"

Methods == {"POST", "GET", "PUT"}
Prompts == {Undefined, Num("5"), Str(""), Str("hello")}
NoBody == [present |-> FALSE, prompt |-> Undefined]
Bodies == {NoBody} \cup {[present |-> TRUE, prompt |-> p] : p \in Prompts}
ApiKeys == {Undefined, Str(""), Str("secret")}

\* const { prompt } = req.body || {};
PromptOf(body) == IF body.present THEN body.prompt ELSE Undefined

(***************************************************************************)
(* Upstream payloads.  A parsed JSON object is a record                    *)
(*   cand    0 when the object has no "candidates", else the payload id    *)
(*   err     "none": no "error" key; "str": error is a string;             *)
(*           "obj": error is an object                                     *)
(*   errS    the string when err = "str"                                   *)
(*   errMsg  error.message when err = "obj" ("" when it has none)          *)
(* A response body is either JSON text (json = TRUE, data = the object it  *)
(* denotes) or text that is not JSON (json = FALSE, data = what a lenient  *)
(* reader would see in it).                                                *)
(***************************************************************************)
EmptyObject == [cand |-> 0, err |-> "none", errS |-> "", errMsg |-> ""]
Candidates(i) == [EmptyObject EXCEPT !.cand = i]
ErrorObject(m) == [EmptyObject EXCEPT !.err = "obj", !.errMsg = m]
ErrorString(s) == [EmptyObject EXCEPT !.err = "str", !.errS = s]

JsonText(d) == [json |-> TRUE, data |-> d]
NotJson(d) == [json |-> FALSE, data |-> d]

SuccessBodies ==
    {JsonText(Candidates(i)) : i \in 1..NumPayloads} \cup {NotJson(Candidates(1))}
ErrorBodies ==
    {JsonText(ErrorObject("quota")), NotJson(ErrorString("<html>"))}

OkStatuses == {200, 201}
TransientStatuses == {429, 503}
PermanentStatuses == {400, 500}

\* what the upstream can answer to one outbound call
UpstreamResponses ==
    {[status |-> s, body |-> b] : s \in OkStatuses, b \in SuccessBodies}
    \cup {[status |-> s, body |-> b] :
            s \in TransientStatuses \cup PermanentStatuses, b \in ErrorBodies}

\* Response.ok
Ok(status) == status >= 200 /\ status <= 299

\* mutant: the catch hands back what it could read of the text
ParseOrEmpty_Lenient(body) == body.data

\* res.json().catch(() => ({}))
ParseOrEmpty(body) == IF body.json THEN body.data ELSE EmptyObject

\* JSON.stringify(data), as a sequence of text pieces
Stringify(d) ==
    <<"{">>
    \o (IF d.cand # 0 THEN <<"\"candidates\":", ToString(d.cand)>> ELSE <<>>)
    \o (IF d.cand # 0 /\ d.err # "none" THEN <<",">> ELSE <<>>)
    \o (IF d.err = "str" THEN <<"\"error\":\"", d.errS, "\"">> ELSE <<>>)
    \o (IF d.err = "obj"
          THEN <<"\"error\":{">>
               \o (IF d.errMsg # "" THEN <<"\"message\":\"", d.errMsg, "\"">> ELSE <<>>)
               \o <<"}">>
          ELSE <<>>)
    \o <<"}">>

\* mutant: data.error is looked at before data.error.message
MsgOf_ErrorFirst(d) ==
    IF d.err = "obj" THEN <<"[object Object]">>
    ELSE IF d.err = "str" /\ d.errS # "" THEN <<d.errS>>
    ELSE Stringify(d)

\* data?.error?.message || data?.error || JSON.stringify(data), then its
\* interpolation into the template literal `${status}: ${msg}`
MsgOf(d) ==
    IF d.err = "obj" /\ d.errMsg # "" THEN <<d.errMsg>>
    ELSE IF d.err = "obj" THEN <<"[object Object]">>
    ELSE IF d.err = "str" /\ d.errS # "" THEN <<d.errS>>
    ELSE Stringify(d)

\* let lastErr; (no error yet)
NoErr == [set |-> FALSE, status |-> 0, message |-> <<>>, hasData |-> FALSE, data |-> EmptyObject]

\* mutant: err.data is never attached, as for lastErr
StatusError_NoData(status, msg, hasData, d) ==
    [set |-> TRUE, status |-> status, message |-> <<ToString(status), ": ">> \o msg,
     hasData |-> FALSE, data |-> EmptyObject]

\* new Error(`${status}: ${msg}`) with .status (and .data when hasData)
StatusError(status, msg, hasData, d) ==
    [set |-> TRUE, status |-> status, message |-> <<ToString(status), ": ">> \o msg,
     hasData |-> hasData, data |-> d]
\* the TypeError a rejected fetch throws: no .status
FetchFailed ==
    [set |-> TRUE, status |-> 0, message |-> <<"fetch failed">>,
     hasData |-> FALSE, data |-> EmptyObject]
\* new Error("Falha desconhecida no retry.")
UnknownRetryFailure ==
    [set |-> TRUE, status |-> 0, message |-> <<"Falha desconhecida no retry.">>,
     hasData |-> FALSE, data |-> EmptyObject]

\* mutant: linear instead of exponential backoff
Backoff_Linear(attempt) == 1000 * attempt

\* 1000 * Math.pow(2, attempt - 1)
Backoff(attempt) == 1000 * 2 ^ (attempt - 1)

(***************************************************************************)
(* Response bodies the handler sends                                       *)
(***************************************************************************)
NoResponse == [status |-> 0, kind |-> "none", data |-> EmptyObject, text |-> <<>>]
\* res.status(s).json(data)
JsonResponse(s, d) == [status |-> s, kind |-> "data", data |-> d, text |-> <<>>]
\* res.status(s).json({ error: text })
ErrorResponse(s, text) == [status |-> s, kind |-> "error", data |-> EmptyObject, text |-> text]
\* res.status(s).json({ error: { message: text } })
ErrorMessageResponse(s, text) ==
    [status |-> s, kind |-> "error.message", data |-> EmptyObject, text |-> text]

(***************************************************************************)
(* State                                                                   *)
(***************************************************************************)
VARIABLES
    impl,       \* which code runs: the handler of "generate" or of "part_000",
                \* or "retry": fetchWithRetry called on its own
    env,        \* process.env.GEMINI_API_KEY
    req,        \* the inbound request of this invocation
    pc,         \* "idle", "fetch" (awaiting fetch + body), "sleep", "done"
    model,      \* model of the callGemini call in progress
    attempt,    \* fetchWithRetry's loop counter
    local,      \* fetchWithRetry's locals status, msg of the current iteration
    lastErr,    \* fetchWithRetry's lastErr
    response,   \* the response sent to the caller
    sent,       \* number of responses sent
    frame,      \* fetchWithRetry's call: its maxAttempts, its caller, how it ended
    calls,      \* history: outbound fetches issued, in order
    results,    \* history: outcome of each outbound fetch, in order
    waits,      \* history: sleep durations requested, in order
    invs        \* the invocations running side by side, when several are followed

vars == <<impl, env, req, pc, model, attempt, local, lastErr, response, sent,
          frame, calls, results, waits, invs>>

NoRequest == [method |-> "", body |-> NoBody]
NoLocal == [status |-> 0, msg |-> <<>>]
\* max: the parameter maxAttempts; caller: "callGemini" or "direct";
\* exit: "" while running, "return", "throw" (line 37 or a rejected await),
\* "postloop" (line 40); err: what was thrown
NoFrame == [max |-> 0, caller |-> "", exit |-> "", err |-> NoErr]

\* the control state of one invocation, as a record the step functions transform
Cur ==
    [pc |-> pc, model |-> model, attempt |-> attempt, local |-> local,
     lastErr |-> lastErr, response |-> response, sent |-> sent,
     frame |-> frame, calls |-> calls, results |-> results, waits |-> waits]

Become(s) ==
    /\ pc' = s.pc
    /\ model' = s.model
    /\ attempt' = s.attempt
    /\ local' = s.local
    /\ lastErr' = s.lastErr
    /\ response' = s.response
    /\ sent' = s.sent
    /\ frame' = s.frame
    /\ calls' = s.calls
    /\ results' = s.results
    /\ waits' = s.waits

Init ==
    /\ impl \in {"generate", "part_000"}
    /\ env \in ApiKeys
    /\ req = NoRequest
    /\ pc = "idle"
    /\ model = ""
    /\ attempt = 0
    /\ local = NoLocal
    /\ lastErr = NoErr
    /\ response = NoResponse
    /\ sent = 0
    /\ frame = NoFrame
    /\ calls = <<>>
    /\ results = <<>>
    /\ waits = <<>>
    /\ invs = <<>>

(***************************************************************************)
(* src/api/generate.js                                                     *)
(***************************************************************************)
\* return res.status(..).json(..): the invocation is over
Respond(s, r) == [s EXCEPT !.pc = "done", !.response = r, !.sent = @ + 1]

\* const res = await fetch(url, options): the request leaves, the function suspends
IssueFetch(s, key, prompt) ==
    [s EXCEPT !.pc = "fetch",
              !.calls = Append(@, [model |-> s.model, attempt |-> s.attempt,
                                   key |-> key, prompt |-> prompt])]

\* mutant: the outer catch answers { error: String(e) } as part_000 does
OuterCatch_ErrorString(s, e) == Respond(s, ErrorResponse(500, <<"Error: ">> \o e.message))

\* mutant: the status of the upstream failure is passed on, as part_000 does
OuterCatch_UpstreamStatus(s, e) ==
    Respond(s, ErrorMessageResponse(IF e.status # 0 THEN e.status ELSE 500, e.message))

\* mutant: the outer catch swallows the error and sends nothing
OuterCatch_Swallow(s, e) == [s EXCEPT !.pc = "failed"]

\* e?.message || String(e)
ErrorText(e) == IF e.message # <<>> THEN e.message ELSE <<"Error">>

\* the outer catch of the handler
OuterCatch(s, e) == Respond(s, ErrorMessageResponse(500, ErrorText(e)))

\* for-loop head of fetchWithRetry at counter value a, and the handler's
\* catch clauses that an error thrown out of it reaches
RECURSIVE RetryLoop(_, _, _, _)
RECURSIVE Throw(_, _, _, _)

\* mutant: the attempt counter outlives the call, the fallback goes on from it
CallGemini_SharedCounter(s, m, key, prompt) ==
    RetryLoop([s EXCEPT !.model = m, !.lastErr = NoErr, !.local = NoLocal,
                        !.frame = [NoFrame EXCEPT !.max = maxAttempts,
                                                  !.caller = "callGemini"]],
              IF s.attempt = 0 THEN 1 ELSE s.attempt, key, prompt)

\* callGemini({ apiKey, model, prompt }) up to its first suspension
CallGemini(s, m, key, prompt) ==
    RetryLoop([s EXCEPT !.model = m, !.lastErr = NoErr, !.local = NoLocal,
                        !.frame = [NoFrame EXCEPT !.max = maxAttempts,
                                                  !.caller = "callGemini"]],
              1, key, prompt)

\* mutant: the fallback is tried on 429 only
InnerCatch_Only429(s, e, key, prompt) ==
    IF e.status = 429
      THEN CallGemini(s, MODEL_FALLBACK, key, prompt)
      ELSE OuterCatch(s, e)

\* mutant: the fallback is tried after every failure that has a status
InnerCatch_AnyStatus(s, e, key, prompt) ==
    IF e.status # 0
      THEN CallGemini(s, MODEL_FALLBACK, key, prompt)
      ELSE OuterCatch(s, e)

\* the inner catch of the handler, reached from the primary call only
InnerCatch(s, e, key, prompt) ==
    IF e.status = 429 \/ e.status = 503
      THEN CallGemini(s, MODEL_FALLBACK, key, prompt)
      ELSE OuterCatch(s, e)

\* mutant: the fallback call sits inside the try, so its failure is caught again
Throw_AlwaysInner(s, e, key, prompt) == InnerCatch(s, e, key, prompt)

Throw(s, e, key, prompt) ==
    IF s.model = MODEL_PRIMARY
      THEN InnerCatch(s, e, key, prompt)
      ELSE OuterCatch(s, e)

\* fetchWithRetry ends by a throw: to the handler's catch clauses when it was
\* called through callGemini, to the caller otherwise
Raise(s, e, how, key, prompt) ==
    LET s1 == [s EXCEPT !.frame.exit = how, !.frame.err = e]
    IN  IF s.frame.caller = "direct"
          THEN [s1 EXCEPT !.pc = "done"]
          ELSE Throw(s1, e, key, prompt)

\* fetchWithRetry ends by return { res, data }: callGemini hands data to the
\* handler, which answers 200 with it
Return(s, data) ==
    LET s1 == [s EXCEPT !.frame.exit = "return"]
    IN  IF s.frame.caller = "direct"
          THEN [s1 EXCEPT !.pc = "done"]
          ELSE Respond(s1, JsonResponse(200, data))

RetryLoop(s, a, key, prompt) ==
    IF a <= s.frame.max
      THEN IssueFetch([s EXCEPT !.attempt = a], key, prompt)
      ELSE Raise([s EXCEPT !.attempt = a],
                 IF s.lastErr.set THEN s.lastErr ELSE UnknownRetryFailure,
                 "postloop", key, prompt)

\* mutant: only GET is refused
HandlerEntry_OnlyGetRefused(s, method, body, key) ==
    IF method = "GET"
      THEN Respond(s, ErrorResponse(405, <<"Method not allowed">>))
    ELSE IF ~Truthy(PromptOf(body)) \/ PromptOf(body).t # "string"
      THEN Respond(s, ErrorResponse(400, <<"Missing or invalid prompt">>))
    ELSE IF ~Truthy(key)
      THEN Respond(s, ErrorResponse(500, <<"Missing GEMINI_API_KEY env var">>))
    ELSE CallGemini(s, MODEL_PRIMARY, key.v, PromptOf(body).v)

\* mutant: the typeof test is missing
HandlerEntry_NoTypeCheck(s, method, body, key) ==
    IF method # "POST"
      THEN Respond(s, ErrorResponse(405, <<"Method not allowed">>))
    ELSE IF ~Truthy(PromptOf(body))
      THEN Respond(s, ErrorResponse(400, <<"Missing or invalid prompt">>))
    ELSE IF ~Truthy(key)
      THEN Respond(s, ErrorResponse(500, <<"Missing GEMINI_API_KEY env var">>))
    ELSE CallGemini(s, MODEL_PRIMARY, key.v, PromptOf(body).v)

\* mutant: only an undefined key is refused, an empty one is used
HandlerEntry_EmptyKeyUsed(s, method, body, key) ==
    IF method # "POST"
      THEN Respond(s, ErrorResponse(405, <<"Method not allowed">>))
    ELSE IF ~Truthy(PromptOf(body)) \/ PromptOf(body).t # "string"
      THEN Respond(s, ErrorResponse(400, <<"Missing or invalid prompt">>))
    ELSE IF key.t = "undefined"
      THEN Respond(s, ErrorResponse(500, <<"Missing GEMINI_API_KEY env var">>))
    ELSE CallGemini(s, MODEL_PRIMARY, key.v, PromptOf(body).v)

\* the handler from its entry to its first suspension or response
HandlerEntry(s, method, body, key) ==
    IF method # "POST"
      THEN Respond(s, ErrorResponse(405, <<"Method not allowed">>))
    ELSE IF ~Truthy(PromptOf(body)) \/ PromptOf(body).t # "string"
      THEN Respond(s, ErrorResponse(400, <<"Missing or invalid prompt">>))
    ELSE IF ~Truthy(key)
      THEN Respond(s, ErrorResponse(500, <<"Missing GEMINI_API_KEY env var">>))
    ELSE CallGemini(s, MODEL_PRIMARY, key.v, PromptOf(body).v)

Invoke(method, body) ==
    /\ impl = "generate"
    /\ pc = "idle"
    /\ req' = [method |-> method, body |-> body]
    /\ Become(HandlerEntry(Cur, method, body, env))
    /\ UNCHANGED <<impl, env, invs>>

\* mutant: every failed attempt is retried while the budget lasts
AfterFetch_RetryAnyFailure(s, r, key, prompt) ==
    LET data == ParseOrEmpty(r.body)
        msg == MsgOf(data)
        s1 == [s EXCEPT !.results = Append(@, [kind |-> "response", status |-> r.status,
                                               body |-> r.body])]
    IN  IF Ok(r.status)
          THEN Return(s1, data)
        ELSE IF s.attempt < s.frame.max
          THEN [s1 EXCEPT !.pc = "sleep",
                          !.local = [status |-> r.status, msg |-> msg],
                          !.waits = Append(@, Backoff(s.attempt))]
        ELSE Raise(s1, StatusError(r.status, msg, TRUE, data), "throw", key, prompt)

\* mutant: the test attempt < maxAttempts is missing
AfterFetch_NoBudgetTest(s, r, key, prompt) ==
    LET data == ParseOrEmpty(r.body)
        msg == MsgOf(data)
        s1 == [s EXCEPT !.results = Append(@, [kind |-> "response", status |-> r.status,
                                               body |-> r.body])]
    IN  IF Ok(r.status)
          THEN Return(s1, data)
        ELSE IF r.status = 429 \/ r.status = 503
          THEN [s1 EXCEPT !.pc = "sleep",
                          !.local = [status |-> r.status, msg |-> msg],
                          !.waits = Append(@, Backoff(s.attempt))]
        ELSE Raise(s1, StatusError(r.status, msg, TRUE, data), "throw", key, prompt)

\* mutant: sleep(wait) is not awaited, the next attempt leaves at once
AfterFetch_SleepNotAwaited(s, r, key, prompt) ==
    LET data == ParseOrEmpty(r.body)
        msg == MsgOf(data)
        s1 == [s EXCEPT !.results = Append(@, [kind |-> "response", status |-> r.status,
                                               body |-> r.body])]
    IN  IF Ok(r.status)
          THEN Return(s1, data)
        ELSE IF (r.status = 429 \/ r.status = 503) /\ s.attempt < s.frame.max
          THEN RetryLoop([s1 EXCEPT !.local = [status |-> r.status, msg |-> msg],
                                    !.lastErr = StatusError(r.status, msg, FALSE, EmptyObject),
                                    !.waits = Append(@, Backoff(s.attempt))],
                         s.attempt + 1, key, prompt)
        ELSE Raise(s1, StatusError(r.status, msg, TRUE, data), "throw", key, prompt)

\* fetchWithRetry from the arrival of a response to the next suspension,
\* return or throw; a return goes through callGemini to the handler's 200
AfterFetch(s, r, key, prompt) ==
    LET data == ParseOrEmpty(r.body)
        msg == MsgOf(data)
        s1 == [s EXCEPT !.results = Append(@, [kind |-> "response", status |-> r.status,
                                               body |-> r.body])]
    IN  IF Ok(r.status)
          THEN Return(s1, data)
        ELSE IF (r.status = 429 \/ r.status = 503) /\ s.attempt < s.frame.max
          THEN [s1 EXCEPT !.pc = "sleep",
                          !.local = [status |-> r.status, msg |-> msg],
                          !.waits = Append(@, Backoff(s.attempt))]
        ELSE Raise(s1, StatusError(r.status, msg, TRUE, data), "throw", key, prompt)

FetchResolves(r) ==
    /\ impl \in {"generate", "retry"}
    /\ pc = "fetch"
    /\ Become(AfterFetch(Cur, r, env.v, PromptOf(req.body).v))
    /\ UNCHANGED <<impl, env, req, invs>>

\* mutant: a rejected fetch is turned into a 503 failure
AfterReject_AsUnavailable(s, key, prompt) ==
    Raise([s EXCEPT !.results = Append(@, [kind |-> "reject", status |-> 0,
                                           body |-> NotJson(EmptyObject)])],
          StatusError(503, <<"fetch failed">>, FALSE, EmptyObject), "throw", key, prompt)

\* fetch rejects: the TypeError leaves fetchWithRetry and callGemini
AfterReject(s, key, prompt) ==
    Raise([s EXCEPT !.results = Append(@, [kind |-> "reject", status |-> 0,
                                           body |-> NotJson(EmptyObject)])],
          FetchFailed, "throw", key, prompt)

FetchRejects ==
    /\ impl \in {"generate", "retry"}
    /\ pc = "fetch"
    /\ Become(AfterReject(Cur, env.v, PromptOf(req.body).v))
    /\ UNCHANGED <<impl, env, req, invs>>

\* the sleep is over: lastErr is recorded, `continue` runs attempt++ and the loop head
AfterSleep(s, key, prompt) ==
    RetryLoop([s EXCEPT !.lastErr = StatusError(s.local.status, s.local.msg, FALSE, EmptyObject)],
              s.attempt + 1, key, prompt)

SleepElapses ==
    /\ impl \in {"generate", "retry"}
    /\ pc = "sleep"
    /\ Become(AfterSleep(Cur, env.v, PromptOf(req.body).v))
    /\ UNCHANGED <<impl, env, req, invs>>

(***************************************************************************)
(* src/unnamed/part_000: validation, one direct call to gemini-2.0-flash,  *)
(* the upstream status passed on                                           *)
(***************************************************************************)
\* String(e) of the errors the handler's catch can see
SyntaxErrorText == <<"SyntaxError: Unexpected token">>
TypeErrorText == <<"TypeError: fetch failed">>

SimpleEntry(s, method, body, key) ==
    IF method # "POST"
      THEN Respond(s, ErrorResponse(405, <<"Method not allowed">>))
    ELSE IF ~Truthy(PromptOf(body)) \/ PromptOf(body).t # "string"
      THEN Respond(s, ErrorResponse(400, <<"Missing or invalid prompt">>))
    ELSE IF ~Truthy(key)
      THEN Respond(s, ErrorResponse(500, <<"Missing GEMINI_API_KEY env var">>))
    ELSE IssueFetch([s EXCEPT !.model = "gemini-2.0-flash", !.attempt = 1],
                    key.v, PromptOf(body).v)

SimpleInvoke(method, body) ==
    /\ impl = "part_000"
    /\ pc = "idle"
    /\ req' = [method |-> method, body |-> body]
    /\ Become(SimpleEntry(Cur, method, body, env))
    /\ UNCHANGED <<impl, env, invs>>

\* const data = await r.json(); return res.status(r.status).json(data);
SimpleAfterFetch(s, r) ==
    LET s1 == [s EXCEPT !.results = Append(@, [kind |-> "response", status |-> r.status,
                                               body |-> r.body])]
    IN  IF r.body.json
          THEN Respond(s1, JsonResponse(r.status, r.body.data))
          ELSE Respond(s1, ErrorResponse(500, SyntaxErrorText))

SimpleFetchResolves(r) ==
    /\ impl = "part_000"
    /\ pc = "fetch"
    /\ Become(SimpleAfterFetch(Cur, r))
    /\ UNCHANGED <<impl, env, req, invs>>

SimpleAfterReject(s) ==
    Respond([s EXCEPT !.results = Append(@, [kind |-> "reject", status |-> 0,
                                             body |-> NotJson(EmptyObject)])],
            ErrorResponse(500, TypeErrorText))

SimpleFetchRejects ==
    /\ impl = "part_000"
    /\ pc = "fetch"
    /\ Become(SimpleAfterReject(Cur))
    /\ UNCHANGED <<impl, env, req, invs>>

Next ==
    \/ \E method \in Methods, body \in Bodies : Invoke(method, body)
    \/ \E r \in UpstreamResponses : FetchResolves(r)
    \/ FetchRejects
    \/ SleepElapses
    \/ \E method \in Methods, body \in Bodies : SimpleInvoke(method, body)
    \/ \E r \in UpstreamResponses : SimpleFetchResolves(r)
    \/ SimpleFetchRejects

Spec == Init /\ [][Next]_vars

(***************************************************************************)
(* fetchWithRetry(url, options, maxAttempts) called on its own, with the   *)
(* url and options callGemini builds and any maxAttempts in 1..MaxBudget   *)
(***************************************************************************)
DirectRequest == [method |-> "POST", body |-> [present |-> TRUE, prompt |-> Str("hello")]]

InitRetry ==
    /\ impl = "retry"
    /\ env = Str("secret")
    /\ req = DirectRequest
    /\ pc = "idle"
    /\ model = ""
    /\ attempt = 0
    /\ local = NoLocal
    /\ lastErr = NoErr
    /\ response = NoResponse
    /\ sent = 0
    /\ frame \in {[NoFrame EXCEPT !.max = b, !.caller = "direct"] : b \in 1..MaxBudget}
    /\ calls = <<>>
    /\ results = <<>>
    /\ waits = <<>>
    /\ invs = <<>>

\* let lastErr; for (let attempt = 1; ...
DirectCall ==
    /\ impl = "retry"
    /\ pc = "idle"
    /\ Become(RetryLoop([Cur EXCEPT !.lastErr = NoErr, !.local = NoLocal], 1,
                        env.v, PromptOf(req.body).v))
    /\ UNCHANGED <<impl, env, req, invs>>

NextRetry ==
    \/ DirectCall
    \/ \E r \in UpstreamResponses : FetchResolves(r)
    \/ FetchRejects
    \/ SleepElapses

SpecRetry == InitRetry /\ [][NextRetry]_vars

(***************************************************************************)
(* The handler of generate.js facing failures of every body shape: beside  *)
(* the answers of UpstreamResponses the upstream may answer 404 with any   *)
(* of the bodies below (error absent, a string, an object; message absent  *)
(* or present; empty strings; not JSON).                                   *)
(***************************************************************************)
WideData ==
    {[cand |-> c, err |-> "none", errS |-> "", errMsg |-> ""] : c \in {0, 1}}
    \cup {[cand |-> c, err |-> "str", errS |-> t, errMsg |-> ""] :
            c \in {0, 1}, t \in {"", "denied"}}
    \cup {[cand |-> c, err |-> "obj", errS |-> "", errMsg |-> t] :
            c \in {0, 1}, t \in {"", "quota"}}

WideFailures ==
    {[status |-> 404, body |-> b] :
        b \in {JsonText(d) : d \in WideData} \cup {NotJson(ErrorObject("quota"))}}

InitMsg == Init /\ impl = "generate"

NextMsg ==
    \/ \E method \in Methods, body \in Bodies : Invoke(method, body)
    \/ \E r \in UpstreamResponses : FetchResolves(r)
    \/ \E r \in WideFailures : FetchResolves(r)
    \/ FetchRejects
    \/ SleepElapses

SpecMsg == InitMsg /\ [][NextMsg]_vars

(***************************************************************************)
(* The handler of generate.js under a runtime that completes what is       *)
(* awaited: every outbound call is answered or rejected in the end, every  *)
(* sleep elapses in the end.  Nothing obliges a request to arrive.         *)
(***************************************************************************)
LiveResponses ==
    {[status |-> 200, body |-> JsonText(Candidates(1))],
     [status |-> 429, body |-> JsonText(ErrorObject("quota"))],
     [status |-> 503, body |-> NotJson(ErrorString("<html>"))],
     [status |-> 400, body |-> JsonText(ErrorObject("quota"))]}

InitLive == Init /\ impl = "generate"

FetchCompletes == (\E r \in LiveResponses : FetchResolves(r)) \/ FetchRejects

NextLive ==
    \/ \E method \in Methods, body \in Bodies : Invoke(method, body)
    \/ \E r \in LiveResponses : FetchResolves(r)
    \/ FetchRejects
    \/ SleepElapses

SpecLive ==
    /\ InitLive
    /\ [][NextLive]_vars
    /\ WF_vars(FetchCompletes)
    /\ WF_vars(SleepElapses)

(***************************************************************************)
(* generate.js in its degenerate form: fetchWithRetry with maxAttempts = 1 *)
(* (the test attempt < maxAttempts at line 26 is then never true, every    *)
(* non-2xx answer is thrown at line 37) and the fallback branch of the     *)
(* inner catch (lines 86-89) removed, so that every error reaches the      *)
(* outer catch.                                                            *)
(***************************************************************************)
\* the invocation before the handler runs
Fresh ==
    [pc |-> "idle", model |-> "", attempt |-> 0, local |-> NoLocal, lastErr |-> NoErr,
     response |-> NoResponse, sent |-> 0, frame |-> NoFrame,
     calls |-> <<>>, results |-> <<>>, waits |-> <<>>]

\* what the degenerate form does with the outcome o of its one outbound call
DegenerateAfter(s, o) ==
    IF o.kind = "reject"
      THEN OuterCatch(s, FetchFailed)
    ELSE IF Ok(o.status)
      THEN Respond(s, JsonResponse(200, ParseOrEmpty(o.body)))
    ELSE OuterCatch(s, StatusError(o.status, MsgOf(ParseOrEmpty(o.body)), TRUE,
                                   ParseOrEmpty(o.body)))

\* its response to a request, given the outcomes rs of its outbound calls
DegenerateResponse(method, body, key, rs) ==
    LET s == HandlerEntry(Fresh, method, body, key)
    IN  IF s.pc = "done" THEN s.response
        ELSE IF rs = <<>> THEN NoResponse
        ELSE DegenerateAfter(s, rs[1]).response

(***************************************************************************)
(* Several invocations of the handler of generate.js in one process, run   *)
(* by the event loop: one of them runs from a suspension point to its next *)
(* one, then any of them may go on.  process.env and the two model names   *)
(* are all they share; req, prompt, apiKey, lastErr, attempt, res, data,   *)
(* status, msg are declared inside the functions, one set per call.        *)
(***************************************************************************)
\* mutant: `attempt` is declared once for the module, every invocation sees
\* the value the running one leaves
Scope_SharedAttempt(all, i, x) ==
    [j \in DOMAIN all |->
        IF j = i THEN x ELSE [all[j] EXCEPT !.st.attempt = x.st.attempt]]

\* what invocation i writes lands in the variables of its own calls
Scope(all, i, x) == [all EXCEPT ![i] = x]

TwoMethods == {"POST", "GET"}
TwoBodies == {NoBody, [present |-> TRUE, prompt |-> Str("hello")]}
TwoResponses ==
    {[status |-> 200, body |-> JsonText(Candidates(1))],
     [status |-> 429, body |-> JsonText(ErrorObject("quota"))],
     [status |-> 400, body |-> JsonText(ErrorObject("quota"))]}

InitTwo ==
    /\ impl = "generate"
    /\ env \in {Undefined, Str("secret")}
    /\ req = NoRequest
    /\ pc = "idle"
    /\ model = ""
    /\ attempt = 0
    /\ local = NoLocal
    /\ lastErr = NoErr
    /\ response = NoResponse
    /\ sent = 0
    /\ frame = NoFrame
    /\ calls = <<>>
    /\ results = <<>>
    /\ waits = <<>>
    /\ invs = [i \in 1..NumInvocations |-> [req |-> NoRequest, st |-> Fresh]]

Alone == <<impl, env, req, pc, model, attempt, local, lastErr, response, sent,
           frame, calls, results, waits>>

TwoInvoke(i, method, body) ==
    /\ invs[i].st.pc = "idle"
    /\ invs' = Scope(invs, i, [req |-> [method |-> method, body |-> body],
                               st |-> HandlerEntry(invs[i].st, method, body, env)])
    /\ UNCHANGED Alone

TwoFetchResolves(i, r) ==
    /\ invs[i].st.pc = "fetch"
    /\ invs' = Scope(invs, i, [invs[i] EXCEPT !.st =
                    AfterFetch(invs[i].st, r, env.v, PromptOf(invs[i].req.body).v)])
    /\ UNCHANGED Alone

TwoFetchRejects(i) ==
    /\ invs[i].st.pc = "fetch"
    /\ invs' = Scope(invs, i, [invs[i] EXCEPT !.st =
                    AfterReject(invs[i].st, env.v, PromptOf(invs[i].req.body).v)])
    /\ UNCHANGED Alone

TwoSleepElapses(i) ==
    /\ invs[i].st.pc = "sleep"
    /\ invs' = Scope(invs, i, [invs[i] EXCEPT !.st =
                    AfterSleep(invs[i].st, env.v, PromptOf(invs[i].req.body).v)])
    /\ UNCHANGED Alone

NextTwo ==
    \E i \in 1..NumInvocations :
        \/ \E method \in TwoMethods, body \in TwoBodies : TwoInvoke(i, method, body)
        \/ \E r \in TwoResponses : TwoFetchResolves(i, r)
        \/ TwoFetchRejects(i)
        \/ TwoSleepElapses(i)

SpecTwo == InitTwo /\ [][NextTwo]_vars

\* the state of an invocation of rq that runs alone, once the outcomes rs of
\* its outbound calls have arrived (a sleep it is in has not yet elapsed)
RECURSIVE Replay(_, _, _)
Replay(rq, key, rs) ==
    IF rs = <<>>
      THEN HandlerEntry(Fresh, rq.method, rq.body, key)
      ELSE LET p == Replay(rq, key, SubSeq(rs, 1, Len(rs) - 1))
               q == IF p.pc = "sleep" THEN AfterSleep(p, key.v, PromptOf(rq.body).v) ELSE p
               o == rs[Len(rs)]
           IN  IF o.kind = "reject"
                 THEN AfterReject(q, key.v, PromptOf(rq.body).v)
                 ELSE AfterFetch(q, [status |-> o.status, body |-> o.body],
                                 key.v, PromptOf(rq.body).v)

(***************************************************************************)
(* Vocabulary of the properties                                            *)
(***************************************************************************)
Invoked == pc # "idle"
Canonical == impl = "generate"
ValidPrompt == req.body.present /\ req.body.prompt.t = "string" /\ req.body.prompt.v # ""
KeyConfigured == env.t = "string" /\ env.v # ""

ResponseAt(i) == i \in DOMAIN results /\ results[i].kind = "response"
TransientAt(i) == ResponseAt(i) /\ results[i].status \in {429, 503}
SuccessAt(i) == ResponseAt(i) /\ results[i].status \in 200..299
PermanentAt(i) == ResponseAt(i) /\ results[i].status \notin (200..299) \cup {429, 503}
LastResult == results[Len(results)]

\* the primary used its four attempts and each was answered 429 or 503
PrimaryExhausted ==
    /\ Len(results) >= 4
    /\ \A i \in 1..4 : TransientAt(i) /\ calls[i].model = "gemini-3-flash-preview"

\* the JSON value a body denotes, the empty object when it is not JSON
PayloadOf(body) ==
    IF body.json THEN body.data
    ELSE [cand |-> 0, err |-> "none", errS |-> "", errMsg |-> ""]

\* the text of the failure raised for a non-2xx answer
FailureText(r) ==
    <<ToString(r.status), ": ">>
    \o (IF ~r.body.json THEN <<"{", "}">>
        ELSE IF r.body.data.err = "obj" /\ r.body.data.errMsg # "" THEN <<r.body.data.errMsg>>
        ELSE IF r.body.data.err = "obj" THEN <<"[object Object]">>
        ELSE IF r.body.data.err = "str" /\ r.body.data.errS # "" THEN <<r.body.data.errS>>
        ELSE Stringify(r.body.data))

Sent(status, kind, text) ==
    /\ pc = "done"
    /\ sent = 1
    /\ response.status = status
    /\ response.kind = kind
    /\ response.text = text

(***************************************************************************)
(* C1: a request whose method is not POST is answered 405                  *)
(* {error: "Method not allowed"} and no outbound call is issued, whatever  *)
(* its body and whether or not the API key is configured (both handlers).  *)
(***************************************************************************)
C1_NonPostIs405 ==
    (Invoked /\ req.method # "POST")
        => Sent(405, "error", <<"Method not allowed">>) /\ calls = <<>> /\ results = <<>>

C1_Witness ==
    /\ pc = "done" /\ Canonical /\ req.method = "PUT"
    /\ ValidPrompt /\ KeyConfigured /\ response.status = 405

(***************************************************************************)
(* C2: a POST whose body lacks a non-empty string prompt (no body, no      *)
(* prompt, prompt not a string, prompt "") is answered 400 {error:         *)
(* "Missing or invalid prompt"} with no outbound call, key or no key.      *)
(***************************************************************************)
C2_BadPromptIs400 ==
    (Invoked /\ req.method = "POST" /\ ~ValidPrompt)
        => Sent(400, "error", <<"Missing or invalid prompt">>) /\ calls = <<>> /\ results = <<>>

C2_Witness ==
    /\ pc = "done" /\ Canonical /\ req.method = "POST" /\ KeyConfigured
    /\ req.body.present /\ req.body.prompt.t = "number" /\ response.status = 400

(***************************************************************************)
(* C3: a POST with a valid prompt while GEMINI_API_KEY is absent is        *)
(* answered 500 {error: "Missing GEMINI_API_KEY env var"} with no outbound *)
(* call: no attempt, no retry, no fallback.                                *)
(***************************************************************************)
C3_MissingKeyIs500 ==
    (Invoked /\ req.method = "POST" /\ ValidPrompt /\ ~KeyConfigured)
        => /\ Sent(500, "error", <<"Missing GEMINI_API_KEY env var">>)
           /\ calls = <<>> /\ results = <<>> /\ waits = <<>>

C3_Witness ==
    /\ pc = "done" /\ Canonical /\ req.method = "POST" /\ ValidPrompt
    /\ env.t = "string" /\ env.v = "" /\ response.status = 500

(***************************************************************************)
(* C4: when the primary answers 429 or 503 on its first k attempts         *)
(* (1 <= k <= 3) and 2xx on attempt k+1, the response is 200 with the      *)
(* payload of attempt k+1, exactly k+1 outbound calls were made, all to    *)
(* the primary, and the wait before attempt i+1 was 1000 * 2^(i-1) ms.     *)
(***************************************************************************)
C4_RetryThenSuccess ==
    \A k \in 1..3 :
        (Canonical /\ Len(results) >= k + 1 /\ (\A i \in 1..k : TransientAt(i)) /\ SuccessAt(k + 1))
            => /\ pc = "done" /\ sent = 1
               /\ response.status = 200 /\ response.kind = "data"
               /\ response.data = PayloadOf(results[k + 1].body)
               /\ Len(calls) = k + 1 /\ Len(results) = k + 1
               /\ \A i \in 1..(k + 1) :
                    calls[i].model = "gemini-3-flash-preview" /\ calls[i].attempt = i
               /\ Len(waits) = k
               /\ \A i \in 1..k : waits[i] = 1000 * 2 ^ (i - 1)

C4_Witness ==
    /\ Canonical /\ pc = "done" /\ Len(results) = 4
    /\ TransientAt(1) /\ TransientAt(2) /\ TransientAt(3) /\ SuccessAt(4)
    /\ waits = <<1000, 2000, 4000>>

(***************************************************************************)
(* C5: when the primary answers 429 or 503 on each of its four attempts    *)
(* the handler calls the fallback gemini-2.0-flash; when the fallback then *)
(* answers 2xx on any of its attempts the response is 200 with the         *)
(* fallback's payload.                                                     *)
(***************************************************************************)
C5_FallbackAfterExhaustion ==
    (Canonical /\ PrimaryExhausted)
        => /\ Len(calls) >= 5
           /\ calls[5].model = "gemini-2.0-flash" /\ calls[5].attempt = 1
           /\ (Len(results) >= 5 /\ SuccessAt(Len(results)))
                => /\ pc = "done" /\ sent = 1
                   /\ calls[Len(results)].model = "gemini-2.0-flash"
                   /\ response.status = 200 /\ response.kind = "data"
                   /\ response.data = PayloadOf(LastResult.body)

C5_Witness ==
    /\ Canonical /\ PrimaryExhausted /\ pc = "done"
    /\ Len(results) = 6 /\ results[4].status = 503 /\ TransientAt(5) /\ SuccessAt(6)
    /\ response.status = 200

(***************************************************************************)
(* C6: when a primary attempt is answered with a non-2xx status other than *)
(* 429 and 503, that attempt is the last outbound call: no further primary *)
(* attempt, no wait after it, no fallback call; the response is 500        *)
(* {error: {message}} with the message built from the upstream body.       *)
(***************************************************************************)
C6_PermanentFailureSurfaces ==
    \A i \in 1..4 :
        (Canonical /\ PermanentAt(i) /\ calls[i].model = "gemini-3-flash-preview")
            => /\ Len(calls) = i /\ Len(results) = i
               /\ Len(waits) = i - 1
               /\ \A j \in 1..i : calls[j].model = "gemini-3-flash-preview"
               /\ Sent(500, "error.message", FailureText(results[i]))

C6_Witness ==
    /\ Canonical /\ pc = "done" /\ Len(results) = 3
    /\ TransientAt(1) /\ TransientAt(2) /\ PermanentAt(3) /\ results[3].status = 400
    /\ results[3].body.json /\ response.text = <<"400", ": ", "quota">>

(***************************************************************************)
(* C7 as stated: one or two outbound HTTP calls per inbound request.       *)
(***************************************************************************)
C7_OneOrTwoCalls ==
    (Canonical /\ pc = "done") => Len(calls) \in {1, 2}

(***************************************************************************)
(* C7 amended: per inbound request the handler makes at most two upstream  *)
(* calls through callGemini, the primary first and then optionally the     *)
(* fallback, each of one to four HTTP attempts numbered from 1: between    *)
(* none and eight outbound HTTP requests.  None is made when the request   *)
(* is refused (405, 400, missing key); at least one otherwise.             *)
(***************************************************************************)
C7_CallsBounded ==
    Canonical =>
        /\ Len(calls) <= 8
        /\ \E n \in 0..4, m \in 0..4 :
            /\ Len(calls) = n + m
            /\ m > 0 => n > 0
            /\ \A i \in 1..n :
                calls[i].model = "gemini-3-flash-preview" /\ calls[i].attempt = i
            /\ \A j \in 1..m :
                calls[n + j].model = "gemini-2.0-flash" /\ calls[n + j].attempt = j
        /\ (Invoked /\ ~(req.method = "POST" /\ ValidPrompt /\ KeyConfigured)) => calls = <<>>
        /\ (Invoked /\ req.method = "POST" /\ ValidPrompt /\ KeyConfigured) => Len(calls) >= 1

C7_Witness ==
    /\ Canonical /\ pc = "done" /\ Len(calls) = 8 /\ Len(results) = 8
    /\ calls[8].model = "gemini-2.0-flash" /\ calls[8].attempt = 4

(***************************************************************************)
(* C8: a 200 response carries exactly the JSON payload of the one attempt  *)
(* that was answered 2xx, which is the last attempt made (the empty object *)
(* when that body was not JSON); no earlier attempt was answered 2xx, so   *)
(* no payload of a failed attempt or of the other target is sent.          *)
(***************************************************************************)
C8_SuccessPayloadVerbatim ==
    (Canonical /\ sent > 0 /\ response.status = 200)
        => /\ results # <<>>
           /\ Len(calls) = Len(results)
           /\ SuccessAt(Len(results))
           /\ \A i \in 1..(Len(results) - 1) : ~SuccessAt(i)
           /\ response.kind = "data"
           /\ response.text = <<>>
           /\ LastResult.body.json => response.data = LastResult.body.data
           /\ ~LastResult.body.json
                => response.data = [cand |-> 0, err |-> "none", errS |-> "", errMsg |-> ""]

C8_Witness ==
    /\ Canonical /\ pc = "done" /\ response.status = 200 /\ Len(results) = 5
    /\ results[1].body.json /\ results[5].body.json
    /\ results[5].body.data.cand = 2 /\ response.data.cand = 2

(***************************************************************************)
(* C9: when the primary exhausts its budget on 429/503 and the fallback    *)
(* then fails with a non-2xx status (a permanent one on any attempt, or    *)
(* 429/503 on its fourth), the response is 500 {error: {message}}; calls   *)
(* 5 and later all go to the fallback: the primary is not called again     *)
(* and no third target is tried.                                           *)
(***************************************************************************)
C9_FallbackFailureIs500 ==
    (Canonical /\ PrimaryExhausted)
        => /\ \A i \in 5..Len(calls) : calls[i].model = "gemini-2.0-flash"
           /\ Len(calls) <= 8
           /\ (/\ Len(results) >= 5
               /\ \/ PermanentAt(Len(results))
                  \/ Len(results) = 8 /\ TransientAt(8))
                => /\ Len(calls) = Len(results)
                   /\ Sent(500, "error.message", FailureText(LastResult))

C9_Witness ==
    /\ Canonical /\ PrimaryExhausted /\ pc = "done" /\ Len(results) = 8
    /\ TransientAt(5) /\ TransientAt(6) /\ TransientAt(7) /\ TransientAt(8)
    /\ response.status = 500

(***************************************************************************)
(* C10: every response of the handler of api/generate.js has status 200,   *)
(* 400, 405 or 500; an upstream status is not passed on: an upstream 2xx   *)
(* answer is sent as 200 and an upstream failure as 500.                   *)
(***************************************************************************)
C10_ResponseStatuses ==
    (Canonical /\ sent > 0)
        => /\ response.status \in {200, 400, 405, 500}
           /\ results # <<>>
                => response.status = (IF SuccessAt(Len(results)) THEN 200 ELSE 500)

C10_Witness ==
    /\ Canonical /\ pc = "done" /\ results # <<>>
    /\ LastResult.kind = "response" /\ LastResult.status = 201 /\ response.status = 200

(***************************************************************************)
(* C11: the handler of part_000 answers every request, for every upstream  *)
(* outcome, as api/generate.js would with maxAttempts = 1 and no fallback. *)
(***************************************************************************)
C11_SimpleIsDegenerate ==
    (impl = "part_000" /\ pc = "done")
        => response = DegenerateResponse(req.method, req.body, env, results)

(***************************************************************************)
(* C14 as stated: every failure fetchWithRetry raises carries a status, a  *)
(* message and the raw payload of the attempt that failed.                 *)
(***************************************************************************)
C14_FailuresCarryAll ==
    frame.exit \in {"throw", "postloop"}
        => frame.err.status # 0 /\ frame.err.message # <<>> /\ frame.err.hasData

(***************************************************************************)
(* C14 amended: every failure fetchWithRetry raises for an HTTP response   *)
(* carries the status of that response, the message "<status>: <msg>" and  *)
(* the parsed payload of that attempt; a rejected fetch is raised as the   *)
(* fetch error itself, which has a message but no status and no payload.   *)
(***************************************************************************)
C14_StatusFailuresCarryAll ==
    (frame.exit # "" /\ frame.exit # "return")
        => /\ results # <<>>
           /\ LastResult.kind = "response"
                => /\ frame.err.status = LastResult.status
                   /\ frame.err.status \notin 200..299
                   /\ frame.err.message = FailureText(LastResult)
                   /\ frame.err.hasData
                   /\ frame.err.data = PayloadOf(LastResult.body)
           /\ LastResult.kind = "reject"
                => /\ frame.err.status = 0
                   /\ frame.err.message = <<"fetch failed">>
                   /\ ~frame.err.hasData

C14_Witness ==
    /\ impl = "retry" /\ pc = "done" /\ frame.exit = "throw" /\ frame.max = 3
    /\ Len(results) = 3 /\ TransientAt(1) /\ TransientAt(2) /\ TransientAt(3)
    /\ frame.err.hasData /\ frame.err.status = results[3].status

(***************************************************************************)
(* C15: for every maxAttempts >= 1 and every sequence of upstream answers  *)
(* fetchWithRetry ends inside its loop, by the return of line 18 or a      *)
(* throw at an attempt <= maxAttempts; the throw after the loop (line 40)  *)
(* is never reached and the counter never exceeds maxAttempts.             *)
(***************************************************************************)
C15_PostLoopUnreachable ==
    (impl = "retry" /\ frame.max >= 1)
        => /\ frame.exit # "postloop"
           /\ attempt <= frame.max
           /\ pc = "done" => frame.exit \in {"return", "throw"} /\ attempt >= 1
           /\ frame.err # [set |-> TRUE, status |-> 0,
                           message |-> <<"Falha desconhecida no retry.">>,
                           hasData |-> FALSE,
                           data |-> [cand |-> 0, err |-> "none", errS |-> "", errMsg |-> ""]]

C15_Witness ==
    /\ impl = "retry" /\ pc = "done" /\ frame.max = 1 /\ attempt = 1
    /\ TransientAt(1) /\ frame.exit = "throw"

(***************************************************************************)
(* C12: within one invocation the outbound calls are sequential.  At most  *)
(* one call is in flight, and the handler is suspended on it.  A call      *)
(* leaves only when the result of every earlier call is known; a retry     *)
(* (attempt > 1) leaves only out of the backoff sleep that followed the    *)
(* previous attempt to the same target; the first fallback attempt leaves  *)
(* only when the primary's fourth attempt has been answered.               *)
(***************************************************************************)
C12_Sequential ==
    /\ [](Canonical =>
            /\ Len(calls) - Len(results) \in {0, 1}
            /\ (pc = "fetch") <=> (Len(calls) = Len(results) + 1))
    /\ [][(Canonical /\ calls' # calls) =>
            /\ Len(calls') = Len(calls) + 1
            /\ \A i \in DOMAIN calls : calls'[i] = calls[i]
            /\ Len(results') = Len(calls)
            /\ LET c == calls'[Len(calls')]
               IN  /\ c.attempt > 1 =>
                        /\ pc = "sleep"
                        /\ results' = results
                        /\ calls[Len(calls)].model = c.model
                        /\ calls[Len(calls)].attempt = c.attempt - 1
                        /\ waits # <<>>
                        /\ waits[Len(waits)] = 1000 * 2 ^ (c.attempt - 2)
                   /\ (c.attempt = 1 /\ c.model = "gemini-2.0-flash") =>
                        /\ Len(calls) = 4
                        /\ calls[4].model = "gemini-3-flash-preview"
                        /\ calls[4].attempt = 4
                        /\ results'[4].kind = "response"
          ]_vars

C12_Witness ==
    /\ Canonical /\ pc = "fetch" /\ Len(calls) = 5 /\ Len(results) = 4
    /\ calls[5].model = "gemini-2.0-flash" /\ Len(waits) = 3

(***************************************************************************)
(* C13: each call of fetchWithRetry makes at most 4 HTTP attempts and the  *)
(* fallback call counts its attempts from 1 again: it follows the          *)
(* primary's fourth attempt and may itself make 4, so that one invocation  *)
(* makes at most 8 outbound requests and at most 4 to one target.          *)
(***************************************************************************)
C13_IndependentBudgets ==
    Canonical =>
        /\ Len(calls) <= 4 + 4
        /\ \A m \in {calls[i].model : i \in DOMAIN calls} :
             Cardinality({i \in DOMAIN calls : calls[i].model = m}) <= 4
        /\ \A i \in DOMAIN calls :
             /\ calls[i].attempt \in 1..4
             /\ i > 1 =>
                  \/ calls[i].model = calls[i - 1].model
                       /\ calls[i].attempt = calls[i - 1].attempt + 1
                  \/ calls[i].model # calls[i - 1].model
                       /\ calls[i].attempt = 1 /\ calls[i - 1].attempt = 4
        /\ calls # <<>> => frame.max = 4 /\ attempt = calls[Len(calls)].attempt

C13_Witness ==
    /\ Canonical /\ pc = "fetch" /\ Len(calls) = 8
    /\ calls[4].attempt = 4 /\ calls[5].attempt = 1 /\ calls[8].attempt = 4
    /\ calls[4].model # calls[5].model

(***************************************************************************)
(* C18: the fallback is called only when the primary has made exactly 4    *)
(* attempts and each was answered 429 or 503: never after a primary        *)
(* success, after a primary attempt answered with another status (even     *)
(* when earlier ones were 429/503) or after a primary attempt that failed  *)
(* without a status.                                                       *)
(***************************************************************************)
C18_FallbackOnlyAfterExhaustion ==
    Canonical =>
        /\ (\E i \in DOMAIN calls : calls[i].model = "gemini-2.0-flash")
             => /\ Len(results) >= 4
                /\ \A i \in 1..4 :
                     /\ calls[i].model = "gemini-3-flash-preview"
                     /\ results[i].kind = "response"
                     /\ results[i].status \in {429, 503}
                /\ \A i \in 5..Len(calls) : calls[i].model = "gemini-2.0-flash"
        /\ \A i \in DOMAIN results :
             (/\ calls[i].model = "gemini-3-flash-preview"
              /\ results[i].kind = "reject" \/ results[i].status \notin {429, 503})
                => \A j \in DOMAIN calls : calls[j].model = "gemini-3-flash-preview"

C18_Witness ==
    /\ Canonical /\ pc = "fetch" /\ Len(calls) = 5 /\ calls[5].model = "gemini-2.0-flash"
    /\ results[1].status = 429 /\ results[4].status = 503

(***************************************************************************)
(* C19: an outbound call that fails at the transport level (the fetch      *)
(* rejects) is the last call of the invocation: it is not retried, no wait *)
(* follows it, on the primary it does not trigger the fallback, the error  *)
(* reaches the handler without a status (taken as 0) and the response is   *)
(* 500 {error: {message}} with the message of the fetch error.             *)
(***************************************************************************)
C19_RejectionSurfaces ==
    \A i \in DOMAIN results :
        (Canonical /\ results[i].kind = "reject")
            => /\ i = Len(results) /\ i = Len(calls)
               /\ Len(waits) = Cardinality({j \in 1..i : calls[j].attempt > 1})
               /\ calls[i].model = "gemini-3-flash-preview"
                    => \A j \in DOMAIN calls : calls[j].model = "gemini-3-flash-preview"
               /\ frame.exit = "throw" /\ frame.err.status = 0
               /\ Sent(500, "error.message", <<"fetch failed">>)

C19_Witness ==
    /\ Canonical /\ pc = "done" /\ Len(results) = 1 /\ results[1].kind = "reject"
    /\ Len(calls) = 1 /\ calls[1].model = "gemini-3-flash-preview" /\ response.status = 500

C17_InvocationsIndependent ==
    \A i \in DOMAIN invs :
        LET s == invs[i].st
            alone == Replay(invs[i].req, env, s.results)
        IN  IF s.pc = "idle"
              THEN s = Fresh /\ invs[i].req = NoRequest
              ELSE \/ s = alone
                   \/ /\ alone.pc = "sleep"
                      /\ s = AfterSleep(alone, env.v, PromptOf(invs[i].req.body).v)

C17_Witness ==
    /\ DOMAIN invs = 1..2
    /\ invs[1].st.pc = "done" /\ invs[1].st.response.status = 200
    /\ Len(invs[1].st.calls) = 5 /\ invs[1].st.model = "gemini-2.0-flash"
    /\ invs[2].st.pc = "sleep" /\ invs[2].st.attempt = 2
    /\ invs[2].st.model = "gemini-3-flash-preview"

(***************************************************************************)
(* C20: when every outbound call completes in the end and every sleep      *)
(* elapses in the end, every invocation of the handler sends its response  *)
(* (exactly one), whatever the request and the upstream outcomes, also     *)
(* when both targets answer 429 or 503 to every call.                      *)
(***************************************************************************)
C20_EventuallyResponds ==
    (Canonical /\ pc # "idle") ~> (pc = "done" /\ sent = 1 /\ response.status # 0)

C20_Witness ==
    /\ Canonical /\ pc = "done" /\ sent = 1 /\ Len(results) = 8 /\ Len(waits) = 6
    /\ \A i \in 1..8 : results[i].status \in {429, 503}

====
